---------------------------- MODULE Spec2Model ----------------------------
(***************************************************************************)
(* SysMonServer: the telemetry sampler / broadcaster of src/main.py and    *)
(* its launcher src/run.py.                                                *)
(*                                                                         *)
(* Numbers.  Python floats are modelled as exact scaled integers: a field  *)
(* rounded with round(x, 1) is held in tenths, round(x, 2) in hundredths,  *)
(* round(x, 0) in units.  Byte counts are held in coarser units so that    *)
(* they fit TLC's 32-bit integers: memory sizes in MiB (so / 1024**3      *)
(* becomes / 1024), network counters in KiB (so * 8 / 1024 / 1024 becomes  *)
(* * 8 / 1024 and / 1024**3 becomes / 1024**2).                            *)
(*                                                                         *)
(* Exceptions.  Every provider call either returns a reading or raises; a  *)
(* function result is a record [raised |-> BOOLEAN, value |-> ...], and    *)
(* raised = TRUE stands for an exception leaving the function.             *)
(***************************************************************************)
EXTENDS Integers, Sequences, FiniteSets, TLC

(***************************************************************************)
(* Bounds of the model                                                     *)
(***************************************************************************)
MaxClients == 2          \* number of distinct connection ids (request.sid)
MaxTime == 1             \* the wall clock datetime.now() runs over 0..MaxTime
MaxTemp == 2             \* number of distinct GPU temperatures a sample can read
MaxVolumes == 2          \* number of volumes psutil.disk_partitions() lists
MaxAddrs == 2            \* number of addresses psutil.net_if_addrs() lists

(***************************************************************************)
(* Program constants                                                       *)
(***************************************************************************)
DefaultInterval == 1000
MinInterval == 100
MaxInterval == 10000
ErrorSleepSeconds == 1
FallbackMaxFreq10 == 50
FallbackPowerLimit == 320
FallbackMemTotal == 16
FanRpmFactor == 22
MaxSpeed == 100
AF_INET == 2

Ids == 1..MaxClients
Times == 0..MaxTime

(***************************************************************************)
(* Arithmetic helpers                                                      *)
(***************************************************************************)
Max(a, b) == IF a >= b THEN a ELSE b

Min(a, b) == IF a <= b THEN a ELSE b

\* Python's round(n / d, k) for d > 0, as an integer count of 10^-k units:
\* the nearest integer to n * 10^k / d, ties going to the even neighbour (as
\* round does for a quotient that is exact in binary, which the quotients by
\* powers of 2 are; the readings divided by 1000 are chosen off the ties).
Round(n, d, k) ==
    LET s  == IF k = 0 THEN 1 ELSE IF k = 1 THEN 10 ELSE 100
        m  == n * s
        fl == m \div d
        r  == m - fl * d
    IN  IF 2 * r < d THEN fl
        ELSE IF 2 * r > d THEN fl + 1
        ELSE IF fl % 2 = 0 THEN fl ELSE fl + 1

Returned(v) == [raised |-> FALSE, value |-> v]

Raised == [raised |-> TRUE, value |-> "exception"]


(***************************************************************************)
(* Provider readings: what one call of a psutil / pynvml function yields.  *)
(* fail = TRUE is the call raising an exception.                           *)
(***************************************************************************)
\* psutil.cpu_percent(interval=0.1) in tenths of a percent, psutil.cpu_freq()
\* (absent when hasFreq is FALSE) in MHz.
CpuReadings ==
    { [fail |-> TRUE,  percent10 |-> 0,   hasFreq |-> FALSE, current |-> 0,    max |-> 0],
      [fail |-> FALSE, percent10 |-> 123, hasFreq |-> TRUE,  current |-> 2448, max |-> 3600],
      [fail |-> FALSE, percent10 |-> 123, hasFreq |-> TRUE,  current |-> 2448, max |-> 0],
      [fail |-> FALSE, percent10 |-> 999, hasFreq |-> FALSE, current |-> 0,    max |-> 0] }

\* psutil.virtual_memory(): percent in tenths, used and total in MiB.
MemReadings ==
    { [fail |-> TRUE,  percent10 |-> 0,   used |-> 0,    total |-> 0],
      [fail |-> FALSE, percent10 |-> 417, used |-> 6707, total |-> 16384] }

\* The pynvml sub-queries of get_gpu_stats, in call order.
GpuQueries == {"temp", "fan", "power", "limit", "util", "mem", "driver", "cuda"}

\* The temperatures nvmlDeviceGetTemperature can return.
Temps == { 30 + 20 * i : i \in 1..MaxTemp }

\* One sample of the GPU: the sub-queries that raise and the temperature read.
\* Either no sub-query raises, exactly one does, or all do.
GpuFailSets == {{}} \cup { {q} : q \in GpuQueries } \cup {GpuQueries}

GpuReadings == [fails : GpuFailSets, temp : Temps]

\* The other readings of a healthy GPU: fan in percent, power and power limit
\* in milliwatts, utilization in percent, memory in MiB, the version string
\* and the integer nvmlSystemGetCudaDriverVersion_v2 returns.
Gpu == [fan |-> 45, power |-> 180400, limit |-> 350000, util |-> 37,
        mem_used |-> 4608, mem_total |-> 24576,
        driver |-> "550.54", cuda |-> 12040, name |-> "NVIDIA GeForce RTX 3090"]

\* Cumulative psutil.net_io_counters() values, in KiB.
NetCounters == {0, 6, 12800}

\* psutil.net_io_counters(): raises, returns None, or returns the counters.
NetReadings ==
    { [fail |-> TRUE,  none |-> FALSE, bytes_sent |-> 0, bytes_recv |-> 0],
      [fail |-> FALSE, none |-> TRUE,  bytes_sent |-> 0, bytes_recv |-> 0] }
    \cup [fail : {FALSE}, none : {FALSE}, bytes_sent : NetCounters, bytes_recv : NetCounters]

\* The value Python's None has in network_baseline.
None == [fail |-> FALSE, none |-> TRUE, bytes_sent |-> 0, bytes_recv |-> 0]

(***************************************************************************)
(* MetricSource adapters                                                   *)
(***************************************************************************)
\* SystemMonitor._get_network_stats: the counters, or None when the read raises.
_get_network_stats(r) == IF r.fail THEN None ELSE r

get_cpu_stats(r) ==
    IF r.fail
    THEN Returned([usage |-> 0, frequency |-> 0, max_frequency |-> FallbackMaxFreq10])
    ELSE LET current_freq == IF r.hasFreq THEN Round(r.current, 1000, 1) ELSE 0
             max_freq     == IF r.hasFreq /\ r.max # 0
                             THEN Round(r.max, 1000, 1) ELSE FallbackMaxFreq10
         IN  Returned([usage |-> Round(r.percent10, 10, 1),
                       frequency |-> current_freq,
                       max_frequency |-> max_freq])

\* get_memory_stats without its try / except: a failing provider call leaves
\* the function as an exception.
get_memory_stats_uncaught(r) ==
    IF r.fail
    THEN Raised
    ELSE Returned([usage_percent |-> Round(r.percent10, 10, 1),
                   used_gb |-> Round(r.used, 1024, 1),
                   total_gb |-> Round(r.total, 1024, 1)])

get_memory_stats(r) ==
    IF r.fail
    THEN Returned([usage_percent |-> 0, used_gb |-> 0, total_gb |-> 0])
    ELSE Returned([usage_percent |-> Round(r.percent10, 10, 1),
                   used_gb |-> Round(r.used, 1024, 1),
                   total_gb |-> Round(r.total, 1024, 1)])

\* The early-return record carrying the fallbacks of the inner except clauses
\* (320 W, 16 GB) instead of zeros.
GpuZeroFallbacks(name, version) ==
    [name |-> name,
     temperature |-> 0, max_temp |-> 0, fan_speed |-> 0, fan_percent |-> 0,
     power_draw |-> 0, max_power |-> FallbackPowerLimit, usage |-> 0,
     memory_usage |-> 0, memory_used |-> 0, memory_total |-> FallbackMemTotal,
     driver_version |-> version, cuda_version |-> version]

\* The all-zero GPU record of the three early returns of get_gpu_stats.
GpuZero(name, version) ==
    [name |-> name,
     temperature |-> 0, max_temp |-> 0, fan_speed |-> 0, fan_percent |-> 0,
     power_draw |-> 0, max_power |-> 0, usage |-> 0,
     memory_usage |-> 0, memory_used |-> 0, memory_total |-> 0,
     driver_version |-> version, cuda_version |-> version]

\* f"{cuda_version // 1000}.{(cuda_version % 1000) // 10}"
CudaString(v) == ToString(v \div 1000) \o "." \o ToString((v % 1000) \div 10)

\* The peak overwritten by the latest temperature.
UpdatePeakLatest(peak, temp) == temp

\* self.max_gpu_temp = max(self.max_gpu_temp, temp)
UpdatePeak(peak, temp) == Max(peak, temp)

\* SystemMonitor.get_gpu_stats.  available is NVIDIA_AVAILABLE, has_handle is
\* hasattr(self, 'gpu_handle'), name is self.gpu_name, peak is
\* self.max_gpu_temp.  The result carries the returned record and the new
\* self.max_gpu_temp.
get_gpu_stats(available, has_handle, name, peak, g) ==
    IF ~available
    THEN [ret |-> Returned(GpuZero("GPU Not Available", "N/A")), max_gpu_temp |-> peak]
    ELSE IF ~has_handle
    THEN [ret |-> Returned(GpuZero(name, "Error")), max_gpu_temp |-> peak]
    ELSE IF "temp" \in g.fails
    THEN [ret |-> Returned(GpuZero(name, "Error")), max_gpu_temp |-> peak]
    ELSE
      LET newPeak   == UpdatePeak(peak, g.temp)
          fan_speed == IF "fan" \in g.fails THEN 0 ELSE Gpu.fan
          powerOk   == {"power", "limit"} \cap g.fails = {}
          \* power_draw and power_limit in watts, as n / 1000
          draw_mw   == IF powerOk THEN Gpu.power ELSE 0
          limit_mw  == IF powerOk THEN Gpu.limit ELSE FallbackPowerLimit * 1000
          gpu_usage == IF "util" \in g.fails THEN 0 ELSE Gpu.util
          memOk     == "mem" \notin g.fails
          \* memory_used and memory_total in GB, as n / 1024
          used_mib  == IF memOk THEN Gpu.mem_used ELSE 0
          total_mib == IF memOk THEN Gpu.mem_total ELSE FallbackMemTotal * 1024
          verOk     == {"driver", "cuda"} \cap g.fails = {}
      IN [ret |-> Returned(
            [name |-> name,
             temperature |-> g.temp,
             max_temp |-> newPeak,
             fan_speed |-> fan_speed * FanRpmFactor,
             fan_percent |-> fan_speed,
             power_draw |-> Round(draw_mw, 1000, 0),
             max_power |-> Round(limit_mw, 1000, 0),
             usage |-> gpu_usage,
             memory_usage |-> IF total_mib > 0
                              THEN Round(used_mib * 100, total_mib, 1) ELSE 0,
             memory_used |-> Round(used_mib, 1024, 1),
             memory_total |-> Round(total_mib, 1024, 0),
             driver_version |-> IF verOk THEN Gpu.driver ELSE "Unknown",
             cuda_version |-> IF verOk THEN CudaString(Gpu.cuda) ELSE "Unknown"]),
          max_gpu_temp |-> newPeak]

\* The all-zero network record of the two early returns of get_network_stats.
NetZero == [usage |-> 0, upload_speed |-> 0, download_speed |-> 0,
            total_sent |-> 0, total_received |-> 0]

\* The speed rounded without the clamp at 0.
ReportedSpeedUnclamped(delta) == Round(delta * 8, 1024, 1)

\* round(max(speed, 0), 1) where speed is delta * 8 / 1024 Mbps, in tenths.
ReportedSpeed(delta) == Round(Max(delta * 8, 0), 1024, 1)

\* round(min(max(upload, download) / max_speed * 100, 100), 1), in tenths.
\* The comparison and the clamp are done on the exact quotients n / 1024.
ReportedUsage(dSent, dRecv) ==
    LET top == Max(dSent * 8, dRecv * 8) * 100     \* usage * max_speed * 1024
        cap == 100 * MaxSpeed * 1024
    IN  Round(Min(top, cap), MaxSpeed * 1024, 1)

\* get_network_stats that takes the counters it read as its baseline when
\* there is none.
get_network_stats_adopts(baseline, r) ==
    IF r.fail
    THEN [ret |-> Returned(NetZero), network_baseline |-> baseline]
    ELSE IF r.none
    THEN [ret |-> Returned(NetZero), network_baseline |-> baseline]
    ELSE IF baseline.none
    THEN [ret |-> Returned(NetZero), network_baseline |-> r]
    ELSE
      LET dSent == r.bytes_sent - baseline.bytes_sent
          dRecv == r.bytes_recv - baseline.bytes_recv
      IN [ret |-> Returned(
            [usage |-> ReportedUsage(dSent, dRecv),
             upload_speed |-> ReportedSpeed(dSent),
             download_speed |-> ReportedSpeed(dRecv),
             total_sent |-> Round(r.bytes_sent, 1024 * 1024, 2),
             total_received |-> Round(r.bytes_recv, 1024 * 1024, 2)]),
          network_baseline |-> r]

\* SystemMonitor.get_network_stats.  The result carries the returned record
\* and the new self.network_baseline.
get_network_stats(baseline, r) ==
    IF r.fail
    THEN [ret |-> Returned(NetZero), network_baseline |-> baseline]
    ELSE IF r.none \/ baseline.none
    THEN [ret |-> Returned(NetZero), network_baseline |-> baseline]
    ELSE
      LET dSent == r.bytes_sent - baseline.bytes_sent
          dRecv == r.bytes_recv - baseline.bytes_recv
      IN [ret |-> Returned(
            [usage |-> ReportedUsage(dSent, dRecv),
             upload_speed |-> ReportedSpeed(dSent),
             download_speed |-> ReportedSpeed(dRecv),
             total_sent |-> Round(r.bytes_sent, 1024 * 1024, 2),
             total_received |-> Round(r.bytes_recv, 1024 * 1024, 2)]),
          network_baseline |-> r]

(***************************************************************************)
(* Strings.  A Python str is a TLA+ string; its characters are read with   *)
(* SubSeq.                                                                 *)
(***************************************************************************)
\* s.startswith(prefix)
StartsWith(s, prefix) == Len(prefix) <= Len(s) /\ SubSeq(s, 1, Len(prefix)) = prefix

\* sub in s
Contains(s, sub) ==
    \E i \in 1..(Len(s) - Len(sub) + 1) : SubSeq(s, i, i + Len(sub) - 1) = sub

\* s.replace(old, new) for a one-character old
RECURSIVE Replace(_, _, _)
Replace(s, old, new) ==
    IF Len(s) = 0 THEN ""
    ELSE (IF SubSeq(s, 1, 1) = old THEN new ELSE SubSeq(s, 1, 1))
            \o Replace(SubSeq(s, 2, Len(s)), old, new)

RECURSIVE LStrip(_, _)
LStrip(s, ch) ==
    IF Len(s) > 0 /\ SubSeq(s, 1, 1) = ch THEN LStrip(SubSeq(s, 2, Len(s)), ch) ELSE s

RECURSIVE RStrip(_, _)
RStrip(s, ch) ==
    IF Len(s) > 0 /\ SubSeq(s, Len(s), Len(s)) = ch
    THEN RStrip(SubSeq(s, 1, Len(s) - 1), ch) ELSE s

\* s.strip(ch)
Strip(s, ch) == RStrip(LStrip(s, ch), ch)

UpperCase == "ABCDEFGHIJKLMNOPQRSTUVWXYZ"

LowerCase == "abcdefghijklmnopqrstuvwxyz"

\* s.lower(), over ASCII
RECURSIVE Lower(_)
Lower(s) ==
    IF Len(s) = 0 THEN ""
    ELSE LET c == SubSeq(s, 1, 1)
             at == { i \in 1..26 : SubSeq(UpperCase, i, i) = c }
         IN  (IF at = {} THEN c
              ELSE LET i == CHOOSE j \in at : TRUE IN SubSeq(LowerCase, i, i))
                \o Lower(SubSeq(s, 2, Len(s)))

\* s.split(sep)[-1] for a one-character sep: what follows the last sep.
RECURSIVE LastPart(_, _)
LastPart(s, sep) ==
    IF Contains(s, sep)
    THEN LET i == CHOOSE j \in 1..Len(s) :
                     SubSeq(s, j, j) = sep /\ \A k \in 1..(j - 1) : SubSeq(s, k, k) # sep
         IN  LastPart(SubSeq(s, i + 1, Len(s)), sep)
    ELSE s

(***************************************************************************)
(* Disk adapter                                                            *)
(***************************************************************************)
\* self.is_linux = platform.system().lower() == 'linux'
is_linux_of(system) == Lower(system) = "linux"

Platforms == {"Linux", "Windows"}

\* What psutil.disk_usage returns for a volume that answers, in MiB.
DiskUsage == [used |-> 123456, total |-> 487424]

\* One entry of psutil.disk_partitions(), with the outcome of
\* psutil.disk_usage(mountpoint): "ok", or "oserror" for PermissionError and
\* OSError.
Volume(device, mountpoint, fstype, opts, usage) ==
    [device |-> device, mountpoint |-> mountpoint, fstype |-> fstype,
     opts |-> opts, usage |-> usage]

LinuxVolumes ==
    { Volume("/dev/sda1", "/", "ext4", "rw", "ok"),
      Volume("/dev/sda2", "/home", "ext4", "rw", "oserror"),
      Volume("tmpfs", "/run", "tmpfs", "rw", "ok"),
      Volume("/dev/sdc1", "/run/media/usb", "vfat", "rw", "ok"),
      Volume("overlay", "/var/lib/docker", "overlay", "rw", "ok"),
      Volume("/dev/sdb1", "/snapshots", "btrfs", "rw", "ok"),
      Volume("/dev/sdd1", "/mnt/data", "ext4", "rw", "ok"),
      Volume("/dev/sde1", "/mnt_data", "xfs", "rw", "ok") }

WindowsVolumes ==
    { Volume("C:\\", "C:\\", "NTFS", "rw,fixed", "ok"),
      Volume("D:\\", "D:\\", "CDFS", "ro,cdrom", "ok"),
      Volume("E:\\", "E:\\", "", "rw,removable", "ok"),
      Volume("F:\\", "F:\\", "NTFS", "rw,fixed", "oserror") }

VolumesOf(linux) == IF linux THEN LinuxVolumes ELSE WindowsVolumes

\* The sequences of at most MaxVolumes distinct volumes of a set.
VolumeLists(volumes) ==
    UNION { { q \in [1..n -> volumes] : \A i, j \in 1..n : q[i] = q[j] => i = j }
            : n \in 0..MaxVolumes }

\* psutil.disk_partitions(): raises, or returns the mounted volumes.
DiskReadings(linux) ==
    { [fail |-> TRUE, partitions |-> << >>] }
    \cup { [fail |-> FALSE, partitions |-> q] : q \in VolumeLists(VolumesOf(linux)) }

SkipTypes == {"tmpfs", "devtmpfs", "sysfs", "proc", "squashfs", "overlay"}

SkipMounts == {"/sys", "/proc", "/dev", "/run", "/snap"}

\* The two filters of the for loop: TRUE when the partition is skipped.
Skipped(is_linux, partition) ==
    IF is_linux
    THEN \/ partition.fstype \in SkipTypes
         \/ \E skip \in SkipMounts : StartsWith(partition.mountpoint, skip)
    ELSE Contains(partition.opts, "cdrom") \/ partition.fstype = ""

\* disk_name
DiskName(is_linux, partition) ==
    IF is_linux
    THEN LET disk_name == Strip(Replace(partition.mountpoint, "/", "_"), "_")
         IN  IF disk_name = "" THEN "root" ELSE disk_name
    ELSE Lower(Replace(Replace(partition.device, ":", ""), "\\", ""))

\* display_name
DisplayName(is_linux, partition) ==
    IF is_linux THEN partition.mountpoint
    ELSE IF Contains(partition.device, "\\")
         THEN LastPart(partition.device, "\\") ELSE "Local Disk"

\* The body of the for loop over the partitions from the first of parts on,
\* with the dict disks built so far.
RECURSIVE DiskLoop(_, _, _)
DiskLoop(is_linux, parts, disks) ==
    IF parts = << >> THEN disks
    ELSE LET partition == Head(parts)
             disk_name == DiskName(is_linux, partition)
             entry == [used   |-> Round(DiskUsage.used, 1024, 1),
                       total  |-> Round(DiskUsage.total, 1024, 1),
                       label  |-> DisplayName(is_linux, partition),
                       fstype |-> partition.fstype]
         IN  IF Skipped(is_linux, partition) \/ partition.usage = "oserror"
             THEN DiskLoop(is_linux, Tail(parts), disks)
             ELSE DiskLoop(is_linux, Tail(parts),
                           [k \in DOMAIN disks \cup {disk_name} |->
                               IF k = disk_name THEN entry ELSE disks[k]])

\* SystemMonitor.get_disk_stats
get_disk_stats(is_linux, r) ==
    IF r.fail THEN << >> ELSE DiskLoop(is_linux, r.partitions, << >>)

(***************************************************************************)
(* Identity: the host name and the addresses of the interfaces, read once  *)
(* in __init__.                                                            *)
(***************************************************************************)
\* One address of an interface as psutil.net_if_addrs() lists it: family is
\* 2 for AF_INET, 10 for AF_INET6, 17 for AF_PACKET.
Addr(interface, family, address) ==
    [interface |-> interface, family |-> family, address |-> address]

InterfaceAddrs ==
    { Addr("lo", AF_INET, "127.0.0.1"),
      Addr("lo", AF_INET, "127.0.0.2"),
      Addr("eth0", AF_INET, "192.168.1.5"),
      Addr("eth0", 10, "fe80::1"),
      Addr("eth0", 17, "00:1a:2b:3c:4d:5e"),
      Addr("eth1", AF_INET, "169.1.2.3"),
      Addr("wlan0", AF_INET, "169.254.10.20") }

\* The sequences of at most MaxAddrs distinct addresses.
AddrLists ==
    UNION { { q \in [1..n -> InterfaceAddrs] : \A i, j \in 1..n : q[i] = q[j] => i = j }
            : n \in 0..MaxAddrs }

\* psutil.net_if_addrs(): raises, or returns the addresses, here in the
\* order the two for loops visit them.
InterfaceReadings ==
    { [fail |-> TRUE, addrs |-> << >>] }
    \cup { [fail |-> FALSE, addrs |-> q] : q \in AddrLists }

\* The interfaces of a plain machine.
NominalInterfaces ==
    [fail |-> FALSE, addrs |-> <<Addr("lo", AF_INET, "127.0.0.1"),
                                 Addr("eth0", AF_INET, "192.168.1.5")>>]

\* The body of the for loops over the addresses from the first of addrs on,
\* with the list ip_addresses built so far.
RECURSIVE IpLoop(_, _)
IpLoop(addrs, ip_addresses) ==
    IF addrs = << >> THEN ip_addresses
    ELSE LET addr == Head(addrs)
             ip == addr.address
         IN  IF addr.family = AF_INET /\ ~StartsWith(ip, "169.") /\ ip # "127.0.0.1"
             THEN IpLoop(Tail(addrs), Append(ip_addresses, ip))
             ELSE IpLoop(Tail(addrs), ip_addresses)

\* SystemMonitor._get_ip_addresses
_get_ip_addresses(r) == IF r.fail THEN << >> ELSE IpLoop(r.addrs, << >>)

\* socket.gethostname()
HostName == "sysmon-host"

(***************************************************************************)
(* ClientRegistry.  self.connected_clients maps a client id to a dict      *)
(* object; the objects live in heap, keyed by reference, so that a shallow *)
(* copy of the mapping shares them with the registry.                      *)
(***************************************************************************)
\* One dict per registered client, one per client of a snapshot still held,
\* and the one being created.
Refs == 1..(2 * MaxClients + 1)

IPs == {"10.0.0.7", "Unknown"}

\* The reference of a newly created dict: any unused one (the least).
NewRef(h) == CHOOSE r \in Refs \ DOMAIN h : \A q \in Refs \ DOMAIN h : r <= q

\* Objects no longer referenced from any root are freed.
Collect(h, roots) == [r \in DOMAIN h \cap roots |-> h[r]]

Range(f) == { f[x] : x \in DOMAIN f }

\* SystemMonitor.add_client: t1 and t2 are its two datetime.now() readings.
\* The result carries the new mapping and the new heap.
add_client(clients, h, client_id, client_ip, t1, t2) ==
    LET r == NewRef(h)
    IN  [clients |-> [c \in DOMAIN clients \cup {client_id} |->
                        IF c = client_id THEN r ELSE clients[c]],
         heap |-> [q \in DOMAIN h \cup {r} |->
                        IF q = r
                        THEN [ip |-> client_ip, connected_at |-> t1, last_seen |-> t2]
                        ELSE h[q]]]

\* remove_client that leaves the entry in place.
remove_client_keeps(clients, client_id) == clients

\* SystemMonitor.remove_client
remove_client(clients, client_id) ==
    IF client_id \in DOMAIN clients
    THEN [c \in DOMAIN clients \ {client_id} |-> clients[c]]
    ELSE clients

\* SystemMonitor.update_client_activity: the new heap.
update_client_activity(clients, h, client_id, t) ==
    IF client_id \in DOMAIN clients
    THEN [h EXCEPT ![clients[client_id]].last_seen = t]
    ELSE h

\* SystemMonitor.get_connected_clients: dict(self.connected_clients), a new
\* mapping to the same dict objects.
get_connected_clients(clients) == [c \in DOMAIN clients |-> clients[c]]

\* What a mapping of references reads as (and is serialised as) under heap h.
View(m, h) == [c \in DOMAIN m |-> h[m[c]]]


(***************************************************************************)
(* State                                                                   *)
(***************************************************************************)
VARIABLES
    running,            \* monitor.running
    update_interval,    \* monitor.update_interval (GlobalCadence), in ms
    max_gpu_temp,       \* monitor.max_gpu_temp (GPUPeakState)
    network_baseline,   \* monitor.network_baseline (NetworkBaseline)
    NVIDIA_AVAILABLE,   \* the module flag set by the import of pynvml
    gpu_handle,         \* TRUE iff monitor has the attribute gpu_handle
    gpu_name,           \* monitor.gpu_name
    platform_system,    \* what platform.system() returns
    is_linux,           \* monitor.is_linux
    net_if_addrs,       \* what psutil.net_if_addrs() did in __init__
    hostname,           \* monitor.hostname
    ip_addresses,       \* monitor.ip_addresses
    connected_clients,  \* monitor.connected_clients: client id -> reference
    heap,               \* the client dict objects: reference -> record
    conn,               \* the transport's connections: id -> "new", "open", "closed"
    pc,                 \* where background_stats_updater stands
    stats,              \* its local stats: << >> or <<snapshot>>
    sleepLen,           \* length in ms of the socketio.sleep it is in (0: none)
    sleepDone,          \* TRUE once that length has run and the sleep can return
    netcall,            \* the get_network_stats calls of SpecNet: thread -> locals
    sampled,            \* the provider readings the last step consumed
    now,                \* the last reading of datetime.now()
    emitted,            \* the messages and responses sent by the last step
    last                \* the last step taken: [op, sid, data, cause]

vars == <<running, update_interval, max_gpu_temp, network_baseline,
          NVIDIA_AVAILABLE, gpu_handle, gpu_name, platform_system, is_linux,
          net_if_addrs, hostname, ip_addresses, connected_clients, heap,
          conn, pc, stats, sleepLen, sleepDone, netcall, sampled, now, emitted,
          last>>

\* What is set when the module is loaded and never written afterwards.
monitorFixed == <<NVIDIA_AVAILABLE, gpu_handle, gpu_name, platform_system, is_linux,
                  net_if_addrs, hostname, ip_addresses>>

(***************************************************************************)
(* Snapshot assembly                                                       *)
(***************************************************************************)
\* The one volume of a plain machine.
NominalPartitions(linux) ==
    IF linux
    THEN <<Volume("/dev/sda1", "/", "ext4", "rw", "ok")>>
    ELSE <<Volume("C:\\", "C:\\", "NTFS", "rw,fixed", "ok")>>

\* One call of get_all_stats reads every provider once and the clock once.
Nominal(t) ==
    [cpu |-> [fail |-> FALSE, percent10 |-> 123, hasFreq |-> TRUE,
              current |-> 2448, max |-> 3600],
     mem |-> [fail |-> FALSE, percent10 |-> 417, used |-> 6707, total |-> 16384],
     gpu |-> [fails |-> {}, temp |-> 50],
     disks |-> [fail |-> FALSE, partitions |-> NominalPartitions(is_linux)],
     net |-> [fail |-> FALSE, none |-> FALSE, bytes_sent |-> 0, bytes_recv |-> 0],
     t   |-> t]

\* Every provider raises.
AllFail(t) ==
    [cpu |-> [fail |-> TRUE, percent10 |-> 0, hasFreq |-> FALSE, current |-> 0, max |-> 0],
     mem |-> [fail |-> TRUE, percent10 |-> 0, used |-> 0, total |-> 0],
     gpu |-> [fails |-> GpuQueries, temp |-> 50],
     disks |-> [fail |-> TRUE, partitions |-> << >>],
     net |-> [fail |-> TRUE, none |-> FALSE, bytes_sent |-> 0, bytes_recv |-> 0],
     t   |-> t]

\* The adapters are independent of each other, so the readings of one call
\* differ from the nominal ones in a single domain, or every provider fails.
Inputs(t) ==
    { [Nominal(t) EXCEPT !.cpu = r] : r \in CpuReadings }
    \cup { [Nominal(t) EXCEPT !.mem = r] : r \in MemReadings }
    \cup { [Nominal(t) EXCEPT !.gpu = g] : g \in GpuReadings }
    \cup { [Nominal(t) EXCEPT !.net = r] : r \in NetReadings }
    \cup { AllFail(t) }

\* SystemMonitor.get_all_stats over the registry mapping clients.  The dict
\* display evaluates the adapters in order; an exception leaving one of them
\* leaves get_all_stats, after the state changes made so far.  The result
\* carries the returned snapshot and the new max_gpu_temp, network_baseline.
get_all_stats(clients, inp) ==
    LET cpu == get_cpu_stats(inp.cpu)
        mem == get_memory_stats(inp.mem)
        gpu == get_gpu_stats(NVIDIA_AVAILABLE, gpu_handle, gpu_name, max_gpu_temp, inp.gpu)
        disks == get_disk_stats(is_linux, inp.disks)
        net == get_network_stats(network_baseline, inp.net)
    IN  IF cpu.raised \/ mem.raised
        THEN [ret |-> Raised, max_gpu_temp |-> max_gpu_temp,
              network_baseline |-> network_baseline]
        ELSE IF gpu.ret.raised
        THEN [ret |-> Raised, max_gpu_temp |-> gpu.max_gpu_temp,
              network_baseline |-> network_baseline]
        ELSE IF net.ret.raised
        THEN [ret |-> Raised, max_gpu_temp |-> gpu.max_gpu_temp,
              network_baseline |-> net.network_baseline]
        ELSE [ret |-> Returned(
                [cpu |-> cpu.value,
                 memory |-> mem.value,
                 gpu |-> gpu.ret.value,
                 disks |-> disks,
                 network |-> net.ret.value,
                 hostname |-> hostname,
                 ip_addresses |-> ip_addresses,
                 connected_clients |-> get_connected_clients(clients),
                 platform |-> platform_system,
                 timestamp |-> inp.t]),
              max_gpu_temp |-> gpu.max_gpu_temp,
              network_baseline |-> net.network_baseline]

\* A snapshot as it is serialised (jsonify, emit): the client records are
\* read through the references at that moment.
Serialize(snap, h) == [snap EXCEPT !.connected_clients = View(@, h)]

\* The references a local snapshot keeps alive.
Held(st) == IF Len(st) = 0 THEN {} ELSE Range(st[1].connected_clients)

(***************************************************************************)
(* Initial states                                                          *)
(***************************************************************************)
\* update_interval at start: 1000 from __init__, or run.py's --interval.
StartIntervals == {DefaultInterval, 50, -100}

\* What the import of pynvml and the GPU part of __init__ can leave behind:
\* no library; nvmlInit or the handle query raised; the name query raised
\* after the handle was stored; or all three answered.
GpuStarts ==
    { [available |-> FALSE, handle |-> FALSE, name |-> "GPU Not Available"],
      [available |-> TRUE,  handle |-> FALSE, name |-> "GPU Error"],
      [available |-> TRUE,  handle |-> TRUE,  name |-> "GPU Error"],
      [available |-> TRUE,  handle |-> TRUE,  name |-> Gpu.name] }

\* The start with the handle and the name of the device.
HealthyGpu == { g \in GpuStarts : g.handle /\ g.name = Gpu.name }

NoData == [has |-> FALSE, interval |-> 0]

\* No provider was read.
NoSample == << >>

\* The threads that call get_network_stats: the sampler loop's and a request
\* handler's.
Threads == {"loop", "query"}

\* The locals of a thread that is not inside get_network_stats: where it
\* stands, current_stats, the two differences (in KiB), the record its last
\* call returned, and the counters that had last been read, by any thread,
\* when it read its own.
Idle == [pc |-> "idle", current_stats |-> None, dSent |-> 0, dRecv |-> 0,
         ret |-> NetZero, preceding |-> None]

\* The state after SystemMonitor() and the launcher, for a start interval
\* among intervals, a first counter reading among readings, a GPU start
\* among gpus, a platform among platforms and the interfaces among
\* interfaces.
InitAll(intervals, readings, gpus, platforms, interfaces) ==
    /\ running = TRUE
    /\ update_interval \in intervals
    /\ max_gpu_temp = 0
    /\ \E r \in readings : network_baseline = _get_network_stats(r)
    /\ \E g \in gpus : /\ NVIDIA_AVAILABLE = g.available
                       /\ gpu_handle = g.handle
                       /\ gpu_name = g.name
    /\ platform_system \in platforms
    /\ is_linux = is_linux_of(platform_system)
    /\ net_if_addrs \in interfaces
    /\ hostname = HostName
    /\ ip_addresses = _get_ip_addresses(net_if_addrs)
    /\ connected_clients = << >>
    /\ heap = << >>
    /\ conn = [i \in Ids |-> "new"]
    /\ pc = "test"
    /\ stats = << >>
    /\ sleepLen = 0
    /\ sleepDone = FALSE
    /\ netcall = [th \in Threads |-> Idle]
    /\ sampled = NoSample
    /\ now = 0
    /\ emitted = << >>
    /\ last = [op |-> "init", sid |-> 0, data |-> NoData, cause |-> ""]

\* The same on a machine with the plain interfaces.
InitWith(intervals, readings, gpus, platforms) ==
    InitAll(intervals, readings, gpus, platforms, {NominalInterfaces})

Init == InitWith(StartIntervals, NetReadings, GpuStarts, {"Linux"})

(***************************************************************************)
(* Messages                                                                *)
(***************************************************************************)
\* A Socket.IO event sent to the connections in to.
Message(event, to, data) == [event |-> event, to |-> to, data |-> data]

\* The HTTP response of the one-shot query.
Response(status, data) == [event |-> "response", to |-> {}, data |-> data, status |-> status]

Open == { i \in Ids : conn[i] = "open" }

Step(op, sid, data) == [op |-> op, sid |-> sid, data |-> data, cause |-> ""]

(***************************************************************************)
(* background_stats_updater, one action per statement                      *)
(***************************************************************************)
\* The loop without its except clause: the exception ends the task.
LoopExceptExits(cause) ==
    /\ pc' = "stopped"
    /\ sleepLen' = 0
    /\ sleepDone' = FALSE
    /\ last' = [op |-> "loop_except", sid |-> 0, data |-> NoData, cause |-> cause]

\* except Exception as e: logger.error(...); socketio.sleep(1).  cause names
\* the statement of the try block that raised.
LoopExcept(cause) ==
    /\ pc' = "errsleep"
    /\ sleepLen' = ErrorSleepSeconds * 1000
    /\ sleepDone' = FALSE
    /\ last' = [op |-> "loop_except", sid |-> 0, data |-> NoData, cause |-> cause]

\* while monitor.running:
LoopTest ==
    /\ pc = "test"
    /\ pc' = IF running THEN "sample" ELSE "stopped"
    /\ emitted' = << >>
    /\ last' = Step("loop_test", 0, NoData)
    /\ sampled' = NoSample
    /\ UNCHANGED <<running, update_interval, max_gpu_temp, network_baseline,
                   monitorFixed, connected_clients, heap, conn, stats, sleepLen, sleepDone, now, netcall>>

\* stats = monitor.get_all_stats()
LoopSample(inp) ==
    /\ pc = "sample"
    /\ LET res == get_all_stats(connected_clients, inp)
       IN  /\ max_gpu_temp' = res.max_gpu_temp
           /\ network_baseline' = res.network_baseline
           /\ IF res.ret.raised
              THEN /\ LoopExcept("get_all_stats")
                   /\ stats' = << >>
              ELSE /\ pc' = "emit"
                   /\ sleepLen' = 0
                   /\ sleepDone' = FALSE
                   /\ stats' = <<res.ret.value>>
                   /\ last' = Step("loop_sample", 0, NoData)
    /\ now' = inp.t
    /\ emitted' = << >>
    /\ sampled' = <<inp>>
    /\ UNCHANGED <<running, update_interval, monitorFixed, connected_clients, heap, conn, netcall>>

\* socketio.emit('system_stats', stats): the snapshot is serialised and sent
\* to every open connection, or the call raises (ok = FALSE).
LoopEmit(ok) ==
    /\ pc = "emit"
    /\ IF ok
       THEN /\ emitted' = <<Message("system_stats", Open, Serialize(stats[1], heap))>>
            /\ pc' = "sleep"
            /\ sleepLen' = 0
            /\ sleepDone' = FALSE
            /\ last' = Step("loop_emit", 0, NoData)
       ELSE /\ emitted' = << >>
            /\ LoopExcept("emit")
    /\ stats' = << >>
    /\ heap' = Collect(heap, Range(connected_clients))
    /\ sampled' = NoSample
    /\ UNCHANGED <<running, update_interval, max_gpu_temp, network_baseline,
                   monitorFixed, connected_clients, conn, now, netcall>>

\* The sleep length fixed at the default instead of read from the monitor.
SleepArgDefault(interval) == DefaultInterval

\* The argument of socketio.sleep(monitor.update_interval / 1000.0), in ms.
SleepArg(interval) == interval

\* socketio.sleep(monitor.update_interval / 1000.0): the interval is read now;
\* time.sleep raises ValueError for a negative length.
LoopSleep ==
    /\ pc = "sleep"
    /\ IF SleepArg(update_interval) < 0
       THEN LoopExcept("sleep")
       ELSE /\ pc' = "sleeping"
            /\ sleepLen' = SleepArg(update_interval)
            /\ sleepDone' = FALSE
            /\ last' = Step("loop_sleep", 0, NoData)
    /\ emitted' = << >>
    /\ sampled' = NoSample
    /\ UNCHANGED <<running, update_interval, max_gpu_temp, network_baseline,
                   monitorFixed, connected_clients, heap, conn, stats, now, netcall>>

\* Time passes in either sleep until its length has run; nothing but time
\* ends it.
SleepElapse ==
    /\ pc \in {"sleeping", "errsleep"}
    /\ ~sleepDone
    /\ sleepDone' = TRUE
    /\ emitted' = << >>
    /\ last' = Step("sleep_elapse", 0, NoData)
    /\ sampled' = NoSample
    /\ UNCHANGED <<running, update_interval, max_gpu_temp, network_baseline,
                   monitorFixed, connected_clients, heap, conn, pc, stats, sleepLen,
                   now, netcall>>

\* Either sleep returns after its length; the loop goes back to the test.
LoopWake ==
    /\ pc \in {"sleeping", "errsleep"}
    /\ sleepDone
    /\ pc' = "test"
    /\ sleepLen' = 0
    /\ sleepDone' = FALSE
    /\ emitted' = << >>
    /\ last' = Step("loop_wake", 0, NoData)
    /\ sampled' = NoSample
    /\ UNCHANGED <<running, update_interval, max_gpu_temp, network_baseline,
                   monitorFixed, connected_clients, heap, conn, stats, now, netcall>>

(***************************************************************************)
(* Handlers.  They are served while the server runs, each as one step.     *)
(***************************************************************************)
\* @app.route('/api/stats'): jsonify(monitor.get_all_stats())
api_stats(inp) ==
    /\ running
    /\ LET res == get_all_stats(connected_clients, inp)
       IN  /\ max_gpu_temp' = res.max_gpu_temp
           /\ network_baseline' = res.network_baseline
           /\ emitted' = IF res.ret.raised
                         THEN <<Response(500, [error |-> "Internal Server Error"])>>
                         ELSE <<Response(200, Serialize(res.ret.value, heap))>>
    /\ now' = inp.t
    /\ last' = Step("api_stats", 0, NoData)
    /\ sampled' = <<inp>>
    /\ UNCHANGED <<running, update_interval, monitorFixed, connected_clients, heap,
                   conn, pc, stats, sleepLen, sleepDone, netcall>>

\* handle_connect with the two statements swapped: the initial stats are
\* assembled and emitted before add_client.
handle_connect_emit_first(sid, client_ip, t1, t2, inp) ==
    /\ running
    /\ conn[sid] = "new"
    /\ now <= inp.t /\ inp.t <= t1 /\ t1 <= t2
    /\ LET res == get_all_stats(connected_clients, inp)
           reg == add_client(connected_clients, heap, sid, client_ip, t1, t2)
       IN  /\ connected_clients' = IF res.ret.raised THEN connected_clients ELSE reg.clients
           /\ heap' = IF res.ret.raised THEN heap ELSE reg.heap
           /\ max_gpu_temp' = res.max_gpu_temp
           /\ network_baseline' = res.network_baseline
           /\ emitted' = IF res.ret.raised
                         THEN << >>
                         ELSE <<[event |-> "system_stats", to |-> {sid},
                                 data |-> Serialize(res.ret.value, heap)]>>
    /\ conn' = [conn EXCEPT ![sid] = "open"]
    /\ now' = t2
    /\ last' = [op |-> "connect", sid |-> sid, data |-> NoData, cause |-> ""]
    /\ sampled' = <<inp>>
    /\ UNCHANGED <<running, update_interval, monitorFixed, pc, stats, sleepLen, sleepDone, netcall>>

\* @socketio.on('connect'): add_client, then emit the initial stats to the
\* connecting client.
handle_connect(sid, client_ip, t1, t2, inp) ==
    /\ running
    /\ conn[sid] = "new"
    /\ now <= t1 /\ t1 <= t2 /\ t2 <= inp.t
    /\ LET reg == add_client(connected_clients, heap, sid, client_ip, t1, t2)
           res == get_all_stats(reg.clients, inp)
       IN  /\ connected_clients' = reg.clients
           /\ heap' = reg.heap
           /\ max_gpu_temp' = res.max_gpu_temp
           /\ network_baseline' = res.network_baseline
           /\ emitted' = IF res.ret.raised
                         THEN << >>
                         ELSE <<Message("system_stats", {sid},
                                        Serialize(res.ret.value, reg.heap))>>
    /\ conn' = [conn EXCEPT ![sid] = "open"]
    /\ now' = inp.t
    /\ last' = Step("connect", sid, NoData)
    /\ sampled' = <<inp>>
    /\ UNCHANGED <<running, update_interval, monitorFixed, pc, stats, sleepLen, sleepDone, netcall>>

\* handle_disconnect that never calls remove_client.
handle_disconnect_no_remove(sid) ==
    /\ running
    /\ conn[sid] = "open"
    /\ conn' = [conn EXCEPT ![sid] = "closed"]
    /\ emitted' = << >>
    /\ last' = [op |-> "disconnect", sid |-> sid, data |-> NoData, cause |-> ""]
    /\ sampled' = NoSample
    /\ UNCHANGED <<running, update_interval, max_gpu_temp, network_baseline,
                   monitorFixed, connected_clients, heap, pc, stats, sleepLen, sleepDone, now, netcall>>

\* @socketio.on('disconnect'): remove_client
handle_disconnect(sid) ==
    /\ running
    /\ conn[sid] = "open"
    /\ connected_clients' = remove_client(connected_clients, sid)
    /\ heap' = Collect(heap, Range(connected_clients') \cup Held(stats))
    /\ conn' = [conn EXCEPT ![sid] = "closed"]
    /\ emitted' = << >>
    /\ last' = Step("disconnect", sid, NoData)
    /\ sampled' = NoSample
    /\ UNCHANGED <<running, update_interval, max_gpu_temp, network_baseline,
                   monitorFixed, pc, stats, sleepLen, sleepDone, now, netcall>>

\* The interval values a client sends, and a message without the field.
RequestIntervals == {50, 99, 100, 5000, 10000, 10001}

Requests == {NoData} \cup [has : {TRUE}, interval : RequestIntervals]

\* data.get('interval', 1000)
MissingInterval == 1000

\* The default of the missing field taken as 0, which the range test refuses.
RequestedIntervalNoDefault(data) == IF data.has THEN data.interval ELSE 0

RequestedInterval(data) == IF data.has THEN data.interval ELSE MissingInterval

\* The range test with strict comparisons.
AcceptedStrict(new_interval) == MinInterval < new_interval /\ new_interval < MaxInterval

\* The range test without the lower limit.
AcceptedNoFloor(new_interval) == new_interval <= MaxInterval

\* if 100 <= new_interval <= 10000:
Accepted(new_interval) == MinInterval <= new_interval /\ new_interval <= MaxInterval

\* @socketio.on('update_interval')
handle_update_interval(sid, data, t) ==
    /\ running
    /\ conn[sid] = "open"
    /\ now <= t
    /\ heap' = update_client_activity(connected_clients, heap, sid, t)
    /\ now' = t
    /\ LET new_interval == RequestedInterval(data)
       IN  IF Accepted(new_interval)
           THEN /\ update_interval' = new_interval
                /\ emitted' = <<Message("interval_updated", {sid},
                                        [interval |-> new_interval])>>
           ELSE /\ update_interval' = update_interval
                /\ emitted' = << >>
    /\ last' = Step("update_interval", sid, data)
    /\ sampled' = NoSample
    /\ UNCHANGED <<running, max_gpu_temp, network_baseline, monitorFixed,
                   connected_clients, conn, pc, stats, sleepLen, sleepDone, netcall>>

\* KeyboardInterrupt in the main thread: monitor.running = False, and the
\* server serves no further request.
Shutdown ==
    /\ running
    /\ running' = FALSE
    /\ emitted' = << >>
    /\ last' = Step("shutdown", 0, NoData)
    /\ sampled' = NoSample
    /\ UNCHANGED <<update_interval, max_gpu_temp, network_baseline, monitorFixed,
                   connected_clients, heap, conn, pc, stats, sleepLen, sleepDone, now, netcall>>

(***************************************************************************)
(* Spec: the server.  The sampler loop runs beside the handlers of the     *)
(* connections 1..MaxClients and the one-shot query; every provider is     *)
(* healthy or every provider fails, from every start of the GPU, on Linux. *)
(* Timestamps play no part here: every reading of the clock returns its    *)
(* start value.                                                            *)
(***************************************************************************)
ZeroReading == [fail |-> FALSE, none |-> FALSE, bytes_sent |-> 0, bytes_recv |-> 0]

ServerInputs(t) == {Nominal(t), AllFail(t)}

ServerRequests == {NoData} \cup [has : {TRUE}, interval : {50, 5000}]

ServerInit == InitWith({DefaultInterval}, {ZeroReading}, GpuStarts, {"Linux"})

Next ==
    \/ LoopTest
    \/ \E inp \in ServerInputs(now) : LoopSample(inp)
    \/ \E ok \in BOOLEAN : LoopEmit(ok)
    \/ LoopSleep
    \/ SleepElapse
    \/ LoopWake
    \/ \E inp \in ServerInputs(now) : api_stats(inp)
    \/ \E sid \in Ids : \E inp \in ServerInputs(now) :
          handle_connect(sid, "10.0.0.7", now, now, inp)
    \/ \E sid \in Ids : handle_disconnect(sid)
    \/ \E sid \in Ids, data \in ServerRequests : handle_update_interval(sid, data, now)
    \/ Shutdown

Spec == ServerInit /\ [][Next]_vars


(***************************************************************************)
(* SpecCadence: the cadence protocol.  One healthy set of providers, every *)
(* start interval the launcher can set and every request value around the  *)
(* limits of the accepted range; every reading of the clock returns its    *)
(* start value.                                                            *)
(***************************************************************************)
CadenceInputs(t) == {Nominal(t)}

CadenceInit == InitWith(StartIntervals, {ZeroReading}, HealthyGpu, {"Linux"})

CadenceNext ==
    \/ LoopTest
    \/ \E inp \in CadenceInputs(now) : LoopSample(inp)
    \/ \E ok \in BOOLEAN : LoopEmit(ok)
    \/ LoopSleep
    \/ SleepElapse
    \/ LoopWake
    \/ \E sid \in Ids : \E inp \in CadenceInputs(now) :
          handle_connect(sid, "10.0.0.7", now, now, inp)
    \/ \E sid \in Ids : handle_disconnect(sid)
    \/ \E sid \in Ids, data \in Requests : handle_update_interval(sid, data, now)
    \/ Shutdown

SpecCadence == CadenceInit /\ [][CadenceNext]_vars

(***************************************************************************)
(* SpecSampler: the adapters and derivers.  Snapshots are assembled for    *)
(* the one-shot query from every start state and over every reading of     *)
(* Inputs, in any order.                                                   *)
(***************************************************************************)
SamplerNext == \E t \in now..MaxTime : \E inp \in Inputs(t) : api_stats(inp)

SpecSampler == Init /\ [][SamplerNext]_vars

(***************************************************************************)
(* SpecRegistry: the ClientRegistry operations called in any order, with   *)
(* any id: registering an id that is present, removing or touching one     *)
(* that is absent.  conn[id] is "open" from a register of id to the next   *)
(* unregister of id.                                                       *)
(***************************************************************************)
register(id, ip, t1, t2) ==
    /\ now <= t1 /\ t1 <= t2
    /\ LET reg == add_client(connected_clients, heap, id, ip, t1, t2)
       IN  /\ connected_clients' = reg.clients
           /\ heap' = Collect(reg.heap, Range(reg.clients) \cup Held(stats))
    /\ conn' = [conn EXCEPT ![id] = "open"]
    /\ now' = t2
    /\ emitted' = << >>
    /\ last' = Step("add_client", id, NoData)
    /\ sampled' = NoSample
    /\ UNCHANGED <<running, update_interval, max_gpu_temp, network_baseline,
                   monitorFixed, pc, stats, sleepLen, sleepDone, netcall>>

unregister(id) ==
    /\ connected_clients' = remove_client(connected_clients, id)
    /\ heap' = Collect(heap, Range(connected_clients') \cup Held(stats))
    /\ conn' = [conn EXCEPT ![id] = "closed"]
    /\ emitted' = << >>
    /\ last' = Step("remove_client", id, NoData)
    /\ sampled' = NoSample
    /\ UNCHANGED <<running, update_interval, max_gpu_temp, network_baseline,
                   monitorFixed, pc, stats, sleepLen, sleepDone, now, netcall>>

touch(id, t) ==
    /\ now <= t
    /\ heap' = update_client_activity(connected_clients, heap, id, t)
    /\ now' = t
    /\ emitted' = << >>
    /\ last' = Step("update_client_activity", id, NoData)
    /\ sampled' = NoSample
    /\ UNCHANGED <<running, update_interval, max_gpu_temp, network_baseline,
                   monitorFixed, connected_clients, conn, pc, stats, sleepLen, sleepDone, netcall>>

RegistryInit ==
    InitWith({DefaultInterval}, {ZeroReading}, HealthyGpu, {"Linux"})

RegistryNext ==
    \/ \E id \in Ids, ip \in IPs, t1 \in now..MaxTime : \E t2 \in t1..MaxTime : register(id, ip, t1, t2)
    \/ \E id \in Ids : unregister(id)
    \/ \E id \in Ids, t \in now..MaxTime : touch(id, t)

SpecRegistry == RegistryInit /\ [][RegistryNext]_vars

(***************************************************************************)
(* SpecDisks: the disk adapter.  Snapshots are assembled for the one-shot  *)
(* query on either platform, over every list of at most MaxVolumes         *)
(* mounted volumes of that platform, as the clock advances.                *)
(***************************************************************************)
DisksInit ==
    InitWith({DefaultInterval}, {ZeroReading}, HealthyGpu, Platforms)

DisksNext ==
    \E t \in now..MaxTime : \E d \in DiskReadings(is_linux) :
        api_stats([Nominal(t) EXCEPT !.disks = d])

SpecDisks == DisksInit /\ [][DisksNext]_vars

(***************************************************************************)
(* SpecNet: get_network_stats statement by statement, called from the      *)
(* sampler loop's thread and from a request handler's thread (a one-shot   *)
(* query or a connect) with no lock between them.                          *)
(***************************************************************************)
\* The counters read last, by any thread; at first those of __init__.
LatestCounters == IF sampled = NoSample THEN network_baseline ELSE sampled[1].net

\* current_stats = psutil.net_io_counters(); an exception is caught by the
\* except clause, which returns the all-zero record.
NetRead(th, r) ==
    /\ netcall[th].pc = "idle"
    /\ netcall' = [netcall EXCEPT ![th] =
                     IF r.fail
                     THEN [Idle EXCEPT !.ret = NetZero]
                     ELSE [Idle EXCEPT !.pc = "read",
                                       !.current_stats = r,
                                       !.preceding = LatestCounters]]
    /\ sampled' = <<[Nominal(now) EXCEPT !.net = r]>>
    /\ emitted' = << >>
    /\ last' = Step("net_read", 0, NoData)
    /\ UNCHANGED <<running, update_interval, max_gpu_temp, network_baseline,
                   monitorFixed, connected_clients, heap, conn, pc, stats, sleepLen,
                   sleepDone, now>>

\* if not current_stats or not self.network_baseline: return the all-zero
\* record; otherwise upload_speed and download_speed are computed from
\* self.network_baseline as it is now.
NetDelta(th) ==
    /\ netcall[th].pc = "read"
    /\ netcall' = [netcall EXCEPT ![th] =
                     IF netcall[th].current_stats.none \/ network_baseline.none
                     THEN [Idle EXCEPT !.ret = NetZero]
                     ELSE [@ EXCEPT !.pc = "computed",
                                    !.dSent = netcall[th].current_stats.bytes_sent
                                                 - network_baseline.bytes_sent,
                                    !.dRecv = netcall[th].current_stats.bytes_recv
                                                 - network_baseline.bytes_recv]]
    /\ emitted' = << >>
    /\ last' = Step("net_delta", 0, NoData)
    /\ UNCHANGED <<running, update_interval, max_gpu_temp, network_baseline,
                   monitorFixed, connected_clients, heap, conn, pc, stats, sleepLen,
                   sleepDone, sampled, now>>

\* self.network_baseline = current_stats, and the record is returned.
NetStore(th) ==
    /\ netcall[th].pc = "computed"
    /\ network_baseline' = netcall[th].current_stats
    /\ netcall' = [netcall EXCEPT ![th] =
                     [Idle EXCEPT !.ret =
                        [usage |-> ReportedUsage(netcall[th].dSent, netcall[th].dRecv),
                         upload_speed |-> ReportedSpeed(netcall[th].dSent),
                         download_speed |-> ReportedSpeed(netcall[th].dRecv),
                         total_sent |->
                            Round(netcall[th].current_stats.bytes_sent, 1024 * 1024, 2),
                         total_received |->
                            Round(netcall[th].current_stats.bytes_recv, 1024 * 1024, 2)]]]
    /\ emitted' = << >>
    /\ last' = Step("net_store", 0, NoData)
    /\ UNCHANGED <<running, update_interval, max_gpu_temp, monitorFixed,
                   connected_clients, heap, conn, pc, stats, sleepLen, sleepDone,
                   sampled, now>>

\* The counters a healthy provider returns after the counters before: they
\* are cumulative.
CounterReadings(before) ==
    { r \in NetReadings :
        /\ ~r.fail /\ ~r.none
        /\ r.bytes_sent >= before.bytes_sent /\ r.bytes_recv >= before.bytes_recv }

NetInit ==
    InitWith({DefaultInterval}, {ZeroReading, [ZeroReading EXCEPT !.fail = TRUE]},
             HealthyGpu, {"Linux"})

NetNext ==
    \/ \E th \in Threads, r \in CounterReadings(LatestCounters) : NetRead(th, r)
    \/ \E th \in Threads : NetDelta(th)
    \/ \E th \in Threads : NetStore(th)

SpecNet == NetInit /\ [][NetNext]_vars

(***************************************************************************)
(* SpecIdentity: the identity fields.  The monitor is constructed on a     *)
(* machine with any list of at most MaxAddrs interface addresses, and      *)
(* snapshots are assembled for the one-shot query as the clock advances.   *)
(***************************************************************************)
IdentityInit ==
    InitAll({DefaultInterval}, {ZeroReading}, HealthyGpu, {"Linux"}, InterfaceReadings)

IdentityNext == \E t \in now..MaxTime : api_stats(Nominal(t))

SpecIdentity == IdentityInit /\ [][IdentityNext]_vars

(***************************************************************************)
(* SpecView: the registry and a reader.  The sampler loop takes its view   *)
(* of the registry in get_all_stats and serialises it in emit, while the   *)
(* handlers' threads register, unregister and touch clients at any moment  *)
(* in between; the clock advances.                                         *)
(***************************************************************************)
ViewNext ==
    \/ LoopTest
    \/ LoopSample(Nominal(now))
    \/ \E ok \in BOOLEAN : LoopEmit(ok)
    \/ LoopSleep
    \/ SleepElapse
    \/ LoopWake
    \/ \E id \in Ids, t \in now..MaxTime : register(id, "10.0.0.7", t, t)
    \/ \E id \in Ids : unregister(id)
    \/ \E id \in Ids, t \in now..MaxTime : touch(id, t)

SpecView == RegistryInit /\ [][ViewNext]_vars


(***************************************************************************)
(* Properties                                                              *)
(***************************************************************************)
CpuFields == {"usage", "frequency", "max_frequency"}

MemoryFields == {"usage_percent", "used_gb", "total_gb"}

GpuNumericFields == {"temperature", "max_temp", "fan_speed", "fan_percent", "power_draw",
                     "max_power", "usage", "memory_usage", "memory_used", "memory_total"}

GpuFields == GpuNumericFields \cup {"name", "driver_version", "cuda_version"}

NetworkFields == {"usage", "upload_speed", "download_speed", "total_sent", "total_received"}

\* Every field of cpu, memory, gpu and network is present and a number.
Complete(snap) ==
    /\ DOMAIN snap.cpu = CpuFields
    /\ \A f \in CpuFields : snap.cpu[f] \in Int
    /\ DOMAIN snap.memory = MemoryFields
    /\ \A f \in MemoryFields : snap.memory[f] \in Int
    /\ DOMAIN snap.gpu = GpuFields
    /\ \A f \in GpuNumericFields : snap.gpu[f] \in Int
    /\ DOMAIN snap.network = NetworkFields
    /\ \A f \in NetworkFields : snap.network[f] \in Int

\* The snapshots sent by the last step: responses and system_stats events.
SentSnapshots ==
    { emitted[i].data : i \in { j \in 1..Len(emitted) :
                                  emitted[j].event \in {"response", "system_stats"} } }

\* C1: the sampler loop stops only from its test and only with the running
\* flag false; an exception raised by get_all_stats, emit or sleep takes it to
\* the 1 second sleep of the except clause, whatever update_interval is, and
\* from there back to the test, which starts a further iteration while the
\* flag is true.
C1_LoopStopsOnlyOnShutdown ==
    /\ [](pc = "stopped" => ~running)
    /\ [](last.op = "loop_except" => pc = "errsleep" /\ sleepLen = 1000)
    /\ [][pc' = "stopped" => pc \in {"test", "stopped"}]_vars
    /\ [][pc = "errsleep" => pc' \in {"errsleep", "test"}]_vars
    /\ [][(pc = "test" /\ running) => pc' \in {"test", "sample"}]_vars

\* C1 witness: emit has raised while the cadence is 5000 ms; the loop is in
\* its 1 second sleep and still running.
C1_Witness ==
    /\ last.op = "loop_except" /\ last.cause = "emit"
    /\ pc = "errsleep" /\ sleepLen = 1000
    /\ update_interval = 5000
    /\ running

\* C2: get_all_stats never raises in the loop, the one-shot query never
\* answers with an error, and every snapshot assembled or sent has every
\* field of cpu, memory, gpu and network present with a number, also when
\* every provider raises.
C2_SnapshotAlwaysComplete ==
    /\ last.op = "loop_except" => last.cause # "get_all_stats"
    /\ \A i \in 1..Len(emitted) : emitted[i].event = "response" => emitted[i].status = 200
    /\ \A snap \in SentSnapshots : Complete(snap)
    /\ \A i \in 1..Len(stats) : Complete(stats[i])

\* C2 witness: a one-shot query answered while every provider raised: every
\* adapter's fallback record.
C2_Witness ==
    /\ last.op = "api_stats"
    /\ Len(emitted) = 1
    /\ emitted[1].status = 200
    /\ emitted[1].data.cpu = [usage |-> 0, frequency |-> 0, max_frequency |-> 50]
    /\ emitted[1].data.memory = [usage_percent |-> 0, used_gb |-> 0, total_gb |-> 0]
    /\ emitted[1].data.gpu.driver_version = "Error"
    /\ emitted[1].data.gpu.temperature = 0
    /\ emitted[1].data.network = NetZero

\* C3: the upload and download speed of every snapshot are at least 0,
\* whatever the counters and the baseline are.
C3_SpeedsNonNegative ==
    \A snap \in SentSnapshots :
        snap.network.upload_speed >= 0 /\ snap.network.download_speed >= 0

\* C3 witness: both counters were read below the baseline (the usage, which
\* is computed from the same differences, is negative) and both speeds are 0.
C3_Witness ==
    /\ last.op = "api_stats"
    /\ Len(emitted) = 1
    /\ emitted[1].data.network.usage < 0
    /\ emitted[1].data.network.upload_speed = 0
    /\ emitted[1].data.network.download_speed = 0

\* C4: max_gpu_temp never decreases.
C4_PeakMonotone == [][max_gpu_temp' >= max_gpu_temp]_vars

\* C4 witness: a sample below the peak, or a failed one, taken after the peak
\* has reached 70.
C4_Witness ==
    /\ last.op = "api_stats"
    /\ Len(emitted) = 1
    /\ max_gpu_temp = 70
    /\ emitted[1].data.gpu.temperature < 70

\* C5: get_connected_clients holds exactly the ids registered and not
\* unregistered since.
C5_ViewIsRegisteredIds ==
    DOMAIN get_connected_clients(connected_clients) = { i \in Ids : conn[i] = "open" }

\* C5 witness: 1 and 2 were registered, then 1 unregistered: the view is {2}.
C5_Witness ==
    /\ last.op = "remove_client" /\ last.sid = 1
    /\ conn[1] = "closed" /\ conn[2] = "open"
    /\ DOMAIN get_connected_clients(connected_clients) = {2}

\* C6: a request carrying ms is acknowledged iff 100 <= ms <= 10000, and
\* then update_interval is ms and the one message sent is interval_updated
\* with ms, to the requesting client.
C6_AcceptedIffInRange ==
    (last.op = "update_interval" /\ last.data.has) =>
        LET ms == last.data.interval
        IN  IF 100 <= ms /\ ms <= 10000
            THEN /\ update_interval = ms
                 /\ Len(emitted) = 1
                 /\ emitted[1].event = "interval_updated"
                 /\ emitted[1].to = {last.sid}
                 /\ emitted[1].data = [interval |-> ms]
            ELSE emitted = << >>

\* C6 witness: the upper limit 10000 was requested and applied.
C6_Witness ==
    /\ last.op = "update_interval" /\ last.data.has /\ last.data.interval = 10000
    /\ update_interval = 10000
    /\ Len(emitted) = 1

\* C7: a request carrying a value outside [100, 10000] leaves
\* update_interval as it was and sends nothing.
C7_OutOfRangeIgnored ==
    [][(/\ last'.op = "update_interval"
        /\ last'.data.has
        /\ (last'.data.interval < 100 \/ last'.data.interval > 10000))
       => (update_interval' = update_interval /\ emitted' = << >>)]_vars

\* C7 witness: 50 was requested while the cadence was 5000, which it still is.
C7_Witness ==
    /\ last.op = "update_interval" /\ last.data.has /\ last.data.interval = 50
    /\ update_interval = 5000
    /\ emitted = << >>

\* C8: a sleep after a tick starts with the length update_interval has at
\* that moment, and a sleep in progress keeps its length.
C8_SleepReadsCadenceEachTick ==
    /\ [][(pc = "sleep" /\ pc' = "sleeping") => sleepLen' = update_interval']_vars
    /\ [][(pc = "sleeping" /\ pc' = "sleeping") => sleepLen' = sleepLen]_vars

\* C8 witness: 5000 was accepted during a sleep of 1000 ms, which goes on.
C8_Witness ==
    /\ last.op = "update_interval" /\ last.data.has /\ last.data.interval = 5000
    /\ update_interval = 5000
    /\ pc = "sleeping" /\ sleepLen = 1000

\* C9: the connect handler leaves the client registered and has sent exactly
\* one message, a system_stats snapshot to that client alone, assembled after
\* the registration (the client is in its connected_clients).
C9_ConnectRegistersThenPushes ==
    last.op = "connect" =>
        /\ last.sid \in DOMAIN connected_clients
        /\ Len(emitted) = 1
        /\ emitted[1].event = "system_stats"
        /\ emitted[1].to = {last.sid}
        /\ last.sid \in DOMAIN emitted[1].data.connected_clients

\* C9 witness: a client connected while the loop was asleep and got its
\* snapshot in the handler.
C9_Witness ==
    /\ last.op = "connect"
    /\ pc = "sleeping"
    /\ Len(emitted) = 1
    /\ emitted[1].to = {last.sid}

\* C10: a disconnected client is out of the registry, and no snapshot
\* assembled after its disconnect (by a tick or by a one-shot query) has an
\* entry for it: the tick in progress at the disconnect may send one, every
\* later tick assembles its snapshot without it.
C10_DisconnectedLeavesSnapshots ==
    /\ [](\A i \in Ids : conn[i] = "closed" => i \notin DOMAIN connected_clients)
    /\ [][\A i \in Ids :
            (conn[i] = "closed" /\ pc = "sample" /\ pc' = "emit")
               => i \notin DOMAIN stats'[1].connected_clients]_vars
    /\ [][\A i \in Ids :
            (conn[i] = "closed" /\ last'.op = "api_stats" /\ emitted'[1].status = 200)
               => i \notin DOMAIN emitted'[1].data.connected_clients]_vars

\* C10 witness: a tick has assembled its snapshot after one client
\* disconnected, with another client connected and the cadence changed.
C10_Witness ==
    /\ last.op = "loop_sample"
    /\ \E i \in Ids : /\ conn[i] = "closed"
                      /\ i \notin DOMAIN stats[1].connected_clients
                      /\ \E j \in Ids \ {i} : j \in DOMAIN stats[1].connected_clients
    /\ update_interval = 5000

\* C12: the view get_connected_clients returned, and the snapshot built from
\* it, reads the same for as long as it is held, whatever register,
\* unregister and touch do meanwhile; and every record it shows is whole.
C12_ViewIsPointInTime ==
    /\ [][(Len(stats) = 1 /\ stats' = stats)
            => Serialize(stats[1], heap') = Serialize(stats[1], heap)]_vars
    /\ [](\A i \in 1..Len(stats) :
            \A c \in DOMAIN stats[i].connected_clients :
               DOMAIN heap[stats[i].connected_clients[c]]
                  = {"ip", "connected_at", "last_seen"})

\* C13: a one-shot snapshot query and a connect leave network_baseline and
\* max_gpu_temp as they were; only the sampler loop's tick writes them.
C13_BaselineAndPeakOwnedByTick ==
    [][last'.op \in {"api_stats", "connect"}
         => (network_baseline' = network_baseline /\ max_gpu_temp' = max_gpu_temp)]_vars

\* C14: with the running flag false the loop stops at its next test, and a
\* sleep of a tick that still has time to run when the flag is false is ended
\* by the next step instead of running on.
C14_ShutdownInterruptsSleep ==
    /\ [][(~running /\ pc = "test") => pc' \in {"test", "stopped"}]_vars
    /\ [][(~running /\ pc = "sleeping" /\ ~sleepDone) => pc' # "sleeping"]_vars

\* C15: add_client for an id that is present leaves the registry as it was:
\* the record keeps its ip, connected_at and last_seen.
C15_RegisterIdempotent ==
    [][(last'.op = "add_client" /\ last'.sid \in DOMAIN connected_clients)
         => View(connected_clients', heap') = View(connected_clients, heap)]_vars

\* The mount point is dir or lies below it.
Under(mountpoint, dir) == mountpoint = dir \/ StartsWith(mountpoint, dir \o "/")

\* The volumes of a reading that the disk result is to show on Linux.
Shown(r) ==
    { r.partitions[i] : i \in { j \in 1..Len(r.partitions) :
        /\ r.partitions[j].fstype \notin SkipTypes
        /\ \A dir \in SkipMounts : ~Under(r.partitions[j].mountpoint, dir)
        /\ r.partitions[j].usage = "ok" } }

\* C16: on Linux the disk result has an entry for exactly the listed volumes
\* whose type is none of the skipped ones, whose mount point is not under
\* /sys, /proc, /dev, /run or /snap and whose usage query succeeded; a tmpfs
\* at /run and a real filesystem at / give the entry of / alone.
C16_DisksAreTheRealVolumes ==
    (last.op = "api_stats" /\ is_linux) =>
        LET r == sampled[1].disks
            disks == emitted[1].data.disks
        IN  /\ { disks[k].label : k \in DOMAIN disks } = { v.mountpoint : v \in Shown(r) }
            /\ ({ v.mountpoint : v \in Range(r.partitions) } = {"/", "/run"}
                   => DOMAIN disks = {"root"})

\* C17: without the driver library, every snapshot assembled, by a tick or
\* for a query or a connect, has gpu.name "GPU Not Available" and every
\* numeric GPU field 0.
C17_UnavailableGpuIsZero ==
    ~NVIDIA_AVAILABLE =>
        /\ \A snap \in SentSnapshots :
              /\ snap.gpu.name = "GPU Not Available"
              /\ \A f \in GpuNumericFields : snap.gpu[f] = 0
        /\ \A i \in 1..Len(stats) :
              /\ stats[i].gpu.name = "GPU Not Available"
              /\ \A f \in GpuNumericFields : stats[i].gpu[f] = 0

\* C17 witness: without the driver library a tick has sent its snapshot to a
\* connected client while the other providers were healthy.
C17_Witness ==
    /\ ~NVIDIA_AVAILABLE
    /\ last.op = "loop_emit"
    /\ Len(emitted) = 1
    /\ emitted[1].to # {}
    /\ emitted[1].data.gpu.name = "GPU Not Available"
    /\ emitted[1].data.gpu.max_power = 0
    /\ emitted[1].data.cpu.usage > 0

\* The fields of the GPU record that a sub-query feeds.
FieldsOf(q) ==
    CASE q = "temp"   -> {"temperature", "max_temp"}
      [] q = "fan"    -> {"fan_speed", "fan_percent"}
      [] q = "power"  -> {"power_draw"}
      [] q = "limit"  -> {"max_power"}
      [] q = "util"   -> {"usage"}
      [] q = "mem"    -> {"memory_usage", "memory_used", "memory_total"}
      [] q = "driver" -> {"driver_version"}
      [] q = "cuda"   -> {"cuda_version"}

\* C18: when exactly one sub-query of a GPU sample raises, every field that
\* it does not feed has the value the same sample gives with no failure.
C18_SubQueriesFailIndependently ==
    (/\ last.op = "api_stats"
     /\ NVIDIA_AVAILABLE /\ gpu_handle
     /\ Cardinality(sampled[1].gpu.fails) = 1) =>
        LET g == sampled[1].gpu
            q == CHOOSE x \in g.fails : TRUE
            healthy == get_gpu_stats(TRUE, TRUE, gpu_name, max_gpu_temp,
                                     [g EXCEPT !.fails = {}]).ret.value
        IN  \A f \in GpuFields \ FieldsOf(q) : emitted[1].data.gpu[f] = healthy[f]

\* C20: the network usage of every snapshot lies in [0, 100] percent (held
\* in tenths), whatever the counters and the baseline are.
C20_UsageWithinPercentRange ==
    \A snap \in SentSnapshots : 0 <= snap.network.usage /\ snap.network.usage <= 1000

\* C19: a call of get_network_stats that computes its speeds takes them
\* against the counters read immediately before its own, by whichever thread,
\* and leaves network_baseline equal to the counters it read itself.
C19_DeltaAgainstPrecedingSample ==
    /\ [][\A th \in Threads :
            (netcall[th].pc = "read" /\ netcall'[th].pc = "computed")
               => network_baseline = netcall[th].preceding]_vars
    /\ [][\A th \in Threads :
            (netcall[th].pc = "computed" /\ netcall'[th].pc = "idle")
               => network_baseline' = netcall[th].current_stats]_vars

\* C21: with a GPU handle, gpu.max_temp of every snapshot is the running
\* maximum of the temperatures read so far, and is not lower than the
\* max_temp of the snapshot before it, also when a GPU query fails.
C21_ReportedPeakIsRunningMax ==
    /\ []((NVIDIA_AVAILABLE /\ gpu_handle) =>
            \A snap \in SentSnapshots : snap.gpu.max_temp = max_gpu_temp)
    /\ [][(NVIDIA_AVAILABLE /\ gpu_handle) =>
            \A i \in 1..Len(emitted), j \in 1..Len(emitted') :
               emitted'[j].data.gpu.max_temp >= emitted[i].data.gpu.max_temp]_vars

\* The listed volumes that pass the filter of the platform and answer the
\* usage query.
Passing(linux, r) ==
    { r.partitions[i] : i \in { j \in 1..Len(r.partitions) :
        ~Skipped(linux, r.partitions[j]) /\ r.partitions[j].usage = "ok" } }

\* C22: the disks mapping of a snapshot has one entry for each listed volume
\* that passes the filter (no two of them share an identifier), and on
\* Linux, where the label is the mount point, a volume shown in two
\* consecutive snapshots has the same identifier in both.
C22_DiskIdsUniqueAndStable ==
    /\ [](last.op = "api_stats" =>
            Cardinality(DOMAIN emitted[1].data.disks)
               = Cardinality(Passing(is_linux, sampled[1].disks)))
    /\ [][(last.op = "api_stats" /\ last'.op = "api_stats" /\ is_linux) =>
            \A k \in DOMAIN emitted[1].data.disks, j \in DOMAIN emitted'[1].data.disks :
               emitted[1].data.disks[k].label = emitted'[1].data.disks[j].label
                  => k = j]_vars

\* 127.0.0.0/8
Loopback(ip) == StartsWith(ip, "127.")

\* 169.254.0.0/16
LinkLocal(ip) == StartsWith(ip, "169.254.")

\* C23: ip_addresses of every snapshot holds exactly the IPv4 addresses the
\* interfaces had at construction that are neither loopback nor link-local.
C23_AddressesAreTheRoutableOnes ==
    ~net_if_addrs.fail =>
        \A snap \in SentSnapshots :
            Range(snap.ip_addresses)
              = { a.address : a \in { b \in Range(net_if_addrs.addrs) :
                                        /\ b.family = AF_INET
                                        /\ ~Loopback(b.address)
                                        /\ ~LinkLocal(b.address) } }

\* C24: update_interval is always within [100, 10000] ms, from the start on
\* and after any requests, and so is the length of every sleep that follows
\* a tick.
C24_CadenceAlwaysInRange ==
    /\ MinInterval <= update_interval /\ update_interval <= MaxInterval
    /\ pc = "sleeping" => (MinInterval <= sleepLen /\ sleepLen <= MaxInterval)

\* C25: when the counter read of __init__ failed, network_baseline stays
\* absent whatever is read later, and every snapshot has the all-zero network
\* record.
C25_AbsentBaselineStaysAbsent ==
    /\ [][network_baseline.none => network_baseline'.none]_vars
    /\ [](network_baseline.none => \A snap \in SentSnapshots : snap.network = NetZero)

\* C25 witness: with no baseline, a query has read healthy counters of
\* 12800 KiB both ways and reports zeros.
C25_Witness ==
    /\ network_baseline.none
    /\ last.op = "api_stats"
    /\ ~sampled[1].net.fail /\ ~sampled[1].net.none
    /\ sampled[1].net.bytes_sent = 12800 /\ sampled[1].net.bytes_recv = 12800
    /\ Len(emitted) = 1
    /\ emitted[1].data.network = NetZero

\* C26: a request without the interval field sets update_interval to 1000,
\* whatever it was, and sends the one message interval_updated with 1000 to
\* the requesting client.
C26_MissingFieldMeans1000 ==
    [][(last'.op = "update_interval" /\ ~last'.data.has) =>
          /\ update_interval' = 1000
          /\ emitted' = <<Message("interval_updated", {last'.sid}, [interval |-> 1000])>>]_vars

\* C26 witness: a request without the field has arrived during a sleep of
\* 5000 ms, the cadence in force when that sleep began; the cadence is now
\* 1000 and the acknowledgement carries 1000.
C26_Witness ==
    /\ last.op = "update_interval" /\ ~last.data.has
    /\ pc = "sleeping" /\ sleepLen = 5000
    /\ update_interval = 1000
    /\ Len(emitted) = 1
    /\ emitted[1].event = "interval_updated"
    /\ emitted[1].data.interval = 1000

=============================================================================
